---- MODULE Spec2Model ----
(***************************************************************************)
(* Model of train/generate_dataset.py: the synthetic YOLO data generator.  *)
(*                                                                         *)
(* Numbers.  Python ints and floats are modelled as exact rationals        *)
(* <<n, d>> with d > 0 in lowest terms.  The double-precision rounding of  *)
(* resize_keep_aspect is modelled bit for bit (FloatScaled); elsewhere the *)
(* inputs tried are ones on which the doubles give the exact result.       *)
(* Images are abstract records: where the foreground was pasted and which  *)
(* stages touched the pixels.                                              *)
(***************************************************************************)
EXTENDS Integers, Sequences, FiniteSets, TLC

VARIABLES
  args,       \* argparse.Namespace of main()
  minimaps,   \* list_images(args.minimap_dir): sequence of <<w, h>>
  champions,  \* list_images(args.champion_dir): sequence of <<w, h>>
  pc,         \* position of main()
  i,          \* loop variable of the for statement
  tries,      \* attempt counter of the while loop
  img,        \* canvas returned by the last generate_one call
  bbox,       \* box returned by the last generate_one call
  boxOf,      \* the attempt whose call returned bbox (history)
  calls,      \* generate_one calls made for sample i (history)
  images,     \* img.save calls in order: the name and which attempt's canvas
  labels,     \* names of the label files that exist
  rng,        \* state of the seeded random source (seeded runs only)
  entropy,    \* what an unseeded random source would start from
  run,        \* number of the run with this seed (seeded runs only)
  log,        \* per-sample outputs of the runs (seeded runs only)
  call,       \* function under direct call, with its arguments
  ret         \* what the call returned

vars == <<args, minimaps, champions, pc, i, tries, img, bbox, boxOf, calls,
          images, labels, rng, entropy, run, log, call, ret>>

-----------------------------------------------------------------------------
(* Exact rational arithmetic *)

Abs(n) == IF n < 0 THEN -n ELSE n

RECURSIVE GCD(_, _)
GCD(a, b) == IF b = 0 THEN Abs(a) ELSE GCD(b, a % b)

Rat(n, d) ==
  LET s == IF d < 0 THEN -1 ELSE 1
      g == GCD(Abs(n), Abs(d))
  IN  <<(s * n) \div g, (s * d) \div g>>

RI(k) == <<k, 1>>

\* a and b in lowest terms; so is the sum
RAdd(a, b) ==
  IF a[2] = b[2] /\ a[2] = 1 THEN <<a[1] + b[1], 1>>
  ELSE
    LET g == GCD(a[2], b[2])
        t == a[1] * (b[2] \div g) + b[1] * (a[2] \div g)
        k == IF g = 1 THEN 1 ELSE GCD(t, g)
    IN  <<t \div k, (a[2] \div g) * (b[2] \div k)>>

RNeg(a) == <<-a[1], a[2]>>

RSub(a, b) == RAdd(a, RNeg(b))

\* a and b in lowest terms; so is the product
RMul(a, b) ==
  IF a[1] = 0 \/ b[1] = 0 THEN <<0, 1>>
  ELSE
    LET g1 == IF b[2] = 1 THEN 1 ELSE GCD(a[1], b[2])
        g2 == IF a[2] = 1 THEN 1 ELSE GCD(b[1], a[2])
    IN  <<(a[1] \div g1) * (b[1] \div g2), (a[2] \div g2) * (b[2] \div g1)>>

\* b # 0
RDiv(a, b) == RMul(a, IF b[1] < 0 THEN <<-b[2], -b[1]>> ELSE <<b[2], b[1]>>)

\* n1/d1 < n2/d2 for 0 <= n1 < d1 and 0 <= n2 < d2, by comparing the
\* reciprocals' integer parts (no product, so no overflow)
RECURSIVE FracLess(_, _, _, _)
FracLess(n1, d1, n2, d2) ==
  IF n2 = 0 THEN FALSE
  ELSE IF n1 = 0 THEN TRUE
  ELSE IF d1 \div n1 # d2 \div n2 THEN d2 \div n2 < d1 \div n1
  ELSE FracLess(d2 % n2, n2, d1 % n1, n1)

RLess(a, b) ==
  IF a[1] \div a[2] # b[1] \div b[2]
    THEN a[1] \div a[2] < b[1] \div b[2]
    ELSE FracLess(a[1] % a[2], a[2], b[1] % b[2], b[2])

RLeq(a, b) == ~RLess(b, a)

\* Python's min(a, b) and max(a, b): the first argument wins a tie
RMin(a, b) == IF RLess(b, a) THEN b ELSE a

RMax(a, b) == IF RLess(a, b) THEN b ELSE a

RECURSIVE RMinOf(_)
RMinOf(s) == IF Len(s) = 1 THEN s[1] ELSE RMin(s[1], RMinOf(Tail(s)))

RECURSIVE RMaxOf(_)
RMaxOf(s) == IF Len(s) = 1 THEN s[1] ELSE RMax(s[1], RMaxOf(Tail(s)))

\* int(x): truncation toward zero
Trunc(a) ==
  IF a[1] >= 0 THEN a[1] \div a[2] ELSE -((-a[1]) \div a[2])

IMax(a, b) == IF a < b THEN b ELSE a

IMin(a, b) == IF b < a THEN b ELSE a

\* f"{x:.6f}" as a count of millionths: long division, round half to even
RECURSIVE Digits6(_, _, _, _)
Digits6(q, r, d, k) ==
  IF k = 0
    THEN IF 2 * r > d \/ (2 * r = d /\ q % 2 = 1) THEN q + 1 ELSE q
    ELSE Digits6(q * 10 + (r * 10) \div d, (r * 10) % d, d, k - 1)

Fmt6(a) ==
  IF a[1] >= 0
    THEN Digits6(a[1] \div a[2], a[1] % a[2], a[2], 6)
    ELSE -Digits6((-a[1]) \div a[2], (-a[1]) % a[2], a[2], 6)

-----------------------------------------------------------------------------
(* clamp and save_yolo_label *)

clampLowOnly(value, lo, hi) == RMax(lo, value)

clamp(value, lo, hi) == RMax(lo, RMin(hi, value))

\* x / img_size; Python raises ZeroDivisionError for img_size = 0, written
\* here as the non-number <<0, 0>>
Raised == <<0, 0>>

PyDiv(a, n) == IF n = 0 THEN Raised ELSE RDiv(a, RI(n))

ClampBox(b, img_size) ==
  <<clamp(b[1], RI(0), RI(img_size)), clamp(b[2], RI(0), RI(img_size)),
    clamp(b[3], RI(0), RI(img_size)), clamp(b[4], RI(0), RI(img_size))>>

Rejects(b, img_size) ==
  LET c == ClampBox(b, img_size)
  IN  RLeq(c[3], c[1]) \/ RLeq(c[4], c[2])

NoLabel == [status |-> "none", line |-> <<>>, exact |-> <<>>]

save_yolo_label(b, img_size, class_id) ==
  IF Rejects(b, img_size)
    THEN NoLabel
    ELSE
      LET c  == ClampBox(b, img_size)
          cx == PyDiv(RDiv(RAdd(c[1], c[3]), RI(2)), img_size)
          cy == PyDiv(RDiv(RAdd(c[2], c[4]), RI(2)), img_size)
          w  == PyDiv(RSub(c[3], c[1]), img_size)
          h  == PyDiv(RSub(c[4], c[2]), img_size)
      IN  IF Raised \in {cx, cy, w, h}
            THEN [status |-> "raised", line |-> <<>>, exact |-> <<>>]
            ELSE [status |-> "written",
                  line   |-> <<class_id, Fmt6(cx), Fmt6(cy), Fmt6(w), Fmt6(h)>>,
                  exact  |-> <<cx, cy, w, h>>]

-----------------------------------------------------------------------------
(* resize_keep_aspect, on the image's size.  Lines 58 and 61 compute the    *)
(* short side as int(short * (target_long / long)) in double precision:    *)
(* the quotient is rounded to 53 significant bits, the product is rounded  *)
(* again, and int() truncates.  FloatScaled gives that value for positive  *)
(* integers a <= b: it is the exact floor unless a * t / b is an integer   *)
(* that the two roundings leave just below.                                *)

\* floor(log2(n / d)) for positive n and d
RECURSIVE ILog2(_, _)
ILog2(n, d) ==
  IF n >= 2 * d THEN 1 + ILog2(n, 2 * d)
  ELSE IF n < d THEN ILog2(2 * n, d) - 1
  ELSE 0

RECURSIVE Pow2(_)
Pow2(k) == IF k = 0 THEN 1 ELSE 2 * Pow2(k - 1)

RECURSIVE IsPow2(_)
IsPow2(n) == n = 1 \/ (n % 2 = 0 /\ IsPow2(n \div 2))

\* 2^k modulo m
RECURSIVE Pow2Mod(_, _)
Pow2Mod(k, m) == IF k = 0 THEN 1 % m ELSE (2 * Pow2Mod(k - 1, m)) % m

\* the exponent of the last bit of a double's significand, relative to its
\* leading bit
MantissaBits == 52

\* int(a * (t / b)).  r / b is the part of t / b below its last kept bit; the
\* quotient is rounded down when that part is under a half, and the product
\* then falls short of the integer v by a * r / b units of the quotient's
\* last bit; it is rounded back to v unless that exceeds half the gap
\* between v and the double below it.
FloatScaled(a, t, b) ==
  LET v    == (a * t) \div b
      eq   == ILog2(t, b)
      r    == ((t % b) * Pow2Mod(MantissaBits - eq, b)) % b
      s    == ILog2(v, 1) - eq
      twoG == IF IsPow2(v) THEN Pow2(s) ELSE Pow2(s + 1)
  IN  IF (a * t) % b # 0 THEN v
      ELSE IF IsPow2(b \div GCD(b, t)) THEN v
      ELSE IF 2 * r > b THEN v
      ELSE IF 4 * a * r > b * twoG THEN v - 1
      ELSE v

resize_keep_aspect_unguarded(w, h, target_long) ==
  IF w = 0 \/ h = 0
    THEN <<w, h>>
    ELSE IF w >= h THEN <<target_long, FloatScaled(h, target_long, w)>>
                   ELSE <<FloatScaled(w, target_long, h), target_long>>

resize_keep_aspect(w, h, target_long) ==
  IF w = 0 \/ h = 0
    THEN <<w, h>>
    ELSE
      LET new_w == IF w >= h THEN target_long
                             ELSE FloatScaled(w, target_long, h)
          new_h == IF w >= h THEN FloatScaled(h, target_long, w)
                             ELSE target_long
      IN  <<IMax(1, new_w), IMax(1, new_h)>>

-----------------------------------------------------------------------------
(* Geometry: random_perspective_points, solve_homography, apply_homography *)

\* max_shift = 0.08
MaxShift == <<2, 25>>

\* u: the eight uniform(0, dx) / uniform(0, dy) draws, in the order drawn
random_perspective_points(w, h, u) ==
  [src |-> <<<<RI(0), RI(0)>>, <<RI(w), RI(0)>>, <<RI(w), RI(h)>>, <<RI(0), RI(h)>>>>,
   dst |-> <<<<u[1], u[2]>>,
             <<RSub(RI(w), u[3]), u[4]>>,
             <<RSub(RI(w), u[5]), RSub(RI(h), u[6])>>,
             <<u[7], RSub(RI(h), u[8])>>>>]

\* The solution of the eight equations for src = the canvas rectangle
\* <<(0,0), (W,0), (W,H), (0,H)>> (the only src the forward solve is given),
\* with h33 = 1.  The system is exactly determined, so least squares returns
\* its solution.
solve_homography(src, dst) ==
  LET W   == src[3][1]
      H   == src[3][2]
      x0  == dst[1][1]  y0 == dst[1][2]
      x1  == dst[2][1]  y1 == dst[2][2]
      x2  == dst[3][1]  y2 == dst[3][2]
      x3  == dst[4][1]  y3 == dst[4][2]
      dx1 == RSub(x1, x2)  dx2 == RSub(x3, x2)
      dy1 == RSub(y1, y2)  dy2 == RSub(y3, y2)
      sx  == RAdd(RSub(x0, x1), RSub(x2, x3))
      sy  == RAdd(RSub(y0, y1), RSub(y2, y3))
      det == RSub(RMul(dx1, dy2), RMul(dx2, dy1))
      g   == RDiv(RSub(RMul(sx, dy2), RMul(dx2, sy)), det)
      k   == RDiv(RSub(RMul(dx1, sy), RMul(sx, dy1)), det)
      a   == RAdd(RSub(x1, x0), RMul(g, x1))
      b   == RAdd(RSub(x3, x0), RMul(k, x3))
      d   == RAdd(RSub(y1, y0), RMul(g, y1))
      e   == RAdd(RSub(y3, y0), RMul(k, y3))
  IN  <<<<RDiv(a, W), RDiv(b, H), x0>>,
        <<RDiv(d, W), RDiv(e, H), y0>>,
        <<RDiv(g, W), RDiv(k, H), RI(1)>>>>

Row(h, r, p) == RAdd(RAdd(RMul(h[r][1], p[1]), RMul(h[r][2], p[2])), h[r][3])

MapPoint(p, h) ==
  LET tx == Row(h, 1, p)
      ty == Row(h, 2, p)
      tz == Row(h, 3, p)
  IN  IF tz = RI(0) THEN p ELSE <<RDiv(tx, tz), RDiv(ty, tz)>>

apply_homography(points, h) == [n \in 1..Len(points) |-> MapPoint(points[n], h)]

-----------------------------------------------------------------------------
(* The random module, given the fraction u in [0, 1) that random() returns *)

\* random.uniform(a, b) == a + (b - a) * random()
Uniform(a, b, u) == RAdd(a, RMul(RSub(b, a), u))

\* random.random() < p
Below(u, p) == RLess(u, p)

-----------------------------------------------------------------------------
(* augment_image.  An image is a record: its size, the assets it was made  *)
(* of, where the foreground was pasted, and hist, the draws and pixel      *)
(* operations that produced it, in program order.                          *)

Did(image, events) == [image EXCEPT !.hist = @ \o events]

DiagonalBox(tpts) == <<tpts[1][1], tpts[1][2], tpts[3][1], tpts[3][2]>>

\* min/max of the transformed corners, lines 158-162
EnclosingBox(tpts) ==
  LET xs == [n \in 1..Len(tpts) |-> tpts[n][1]]
      ys == [n \in 1..Len(tpts) |-> tpts[n][2]]
  IN  <<RMinOf(xs), RMinOf(ys), RMaxOf(xs), RMaxOf(ys)>>

Corners(b) == <<<<b[1], b[2]>>, <<b[3], b[2]>>, <<b[3], b[4]>>, <<b[1], b[4]>>>>

\* the quad drawn for an image of size w x h from the eight fractions
QuadFor(w, h, quad) ==
  LET dx == RMul(RI(w), MaxShift)
      dy == RMul(RI(h), MaxShift)
  IN  random_perspective_points(w, h,
        [n \in 1..8 |-> Uniform(RI(0), IF n % 2 = 1 THEN dx ELSE dy, quad[n])])

WarpBox(b, w, h, quad) ==
  LET q     == QuadFor(w, h, quad)
      h_mat == solve_homography(q.src, q.dst)
  IN  EnclosingBox(apply_homography(Corners(b), h_mat))

Half == <<1, 2>>

\* d holds the outcomes of the draws: d.quad the eight fractions behind the
\* corner shifts, d.bright and d.contrast the values of random.random() < 0.5
augment_image_glare_first(image, b, apply_perspective, apply_moire_flag, apply_glare_flag, d) ==
  [img  |-> Did(image,
              <<"augment">>
              \o (IF apply_perspective
                    THEN <<"draw:quad", "perspective">> ELSE <<>>)
              \o (IF apply_glare_flag
                    THEN <<"draw:glare_strength", "glare">> ELSE <<>>)
              \o (IF apply_moire_flag
                    THEN <<"draw:moire_strength", "moire">> ELSE <<>>)
              \o <<"draw:brightness_flag">>
              \o (IF d.bright
                    THEN <<"draw:brightness_factor", "brightness">> ELSE <<>>)
              \o <<"draw:contrast_flag">>
              \o (IF d.contrast
                    THEN <<"draw:contrast_factor", "contrast">> ELSE <<>>)),
   bbox |-> IF apply_perspective
              THEN WarpBox(b, image.size[1], image.size[2], d.quad) ELSE b]

augment_image(image, b, apply_perspective, apply_moire_flag, apply_glare_flag, d) ==
  [img  |-> Did(image,
              <<"augment">>
              \o (IF apply_perspective
                    THEN <<"draw:quad", "perspective">> ELSE <<>>)
              \o (IF apply_moire_flag
                    THEN <<"draw:moire_strength", "moire">> ELSE <<>>)
              \o (IF apply_glare_flag
                    THEN <<"draw:glare_strength", "glare">> ELSE <<>>)
              \o <<"draw:brightness_flag">>
              \o (IF d.bright
                    THEN <<"draw:brightness_factor", "brightness">> ELSE <<>>)
              \o <<"draw:contrast_flag">>
              \o (IF d.contrast
                    THEN <<"draw:contrast_factor", "contrast">> ELSE <<>>)),
   bbox |-> IF apply_perspective
              THEN WarpBox(b, image.size[1], image.size[2], d.quad) ELSE b]

-----------------------------------------------------------------------------
(* generate_one *)

MinTarget == 8

CanvasSize(minimap, img_size) ==
  IF img_size > 0 THEN <<img_size, img_size>> ELSE minimap

\* lines 196-199: the size of the resized foreground
FgSize(canvas, champion, scale) ==
  LET target == Trunc(RMul(RI(IMin(canvas[1], canvas[2])), scale))
  IN  resize_keep_aspect(champion[1], champion[2], IMax(MinTarget, target))

\* lines 201-202: the upper end of randint(0, max_x)
MaxOffset(canvas_side, fg_side) == IMax(1, canvas_side - fg_side)

generate_one(minimap, champion, img_size, scale_range, apply_perspective, apply_moire_flag, apply_glare_flag, d) ==
  LET canvas == CanvasSize(minimap, img_size)
      scale  == Uniform(scale_range[1], scale_range[2], d.u_scale)
      fsz    == FgSize(canvas, champion, scale)
      x      == d.x
      y      == d.y
      bg     == [size |-> canvas, bg |-> minimap, fg |-> champion,
                 scale |-> scale, at |-> <<x, y>>, fsize |-> fsz, attempt |-> 0,
                 hist |-> <<"open", "draw:scale", "resize", "draw:x", "draw:y",
                            "paste">>]
      b      == <<RI(x), RI(y), RI(x + fsz[1]), RI(y + fsz[2])>>
  IN  augment_image(bg, b, apply_perspective, apply_moire_flag,
                    apply_glare_flag, d)

-----------------------------------------------------------------------------
(* Values before anything is assigned *)

NoImg ==
  [size |-> <<0, 0>>, bg |-> <<0, 0>>, fg |-> <<0, 0>>, scale |-> RI(0),
   at |-> <<0, 0>>, fsize |-> <<0, 0>>, attempt |-> 0, hist |-> <<>>]

NoBox == <<>>

NoArgs ==
  [img_size |-> 0, count |-> 0, seed |-> 0, min_scale |-> RI(0),
   max_scale |-> RI(0), moire_prob |-> RI(0), glare_prob |-> RI(0),
   perspective_prob |-> RI(0)]

NoCall == [fn |-> "none", a |-> <<>>]

-----------------------------------------------------------------------------
(* Inputs of the direct calls *)

RandDen == 2

\* the fractions random() is given in the model: 0, 1/RandDen, ...
Fractions == {Rat(k, RandDen) : k \in 0..(RandDen - 1)}

MaxLabelSize == 2

\* box coordinates tried: the half pixels from -1/2 to MaxLabelSize + 1/2
LabelCoords == {Rat(k, 2) : k \in (-1)..(2 * MaxLabelSize + 1)}

MaxSide == 11

MaxTargetLong == 15

UnitCanvases == {<<10, 12>>}

UnitBoxes ==
  {<<RI(2), RI(3), RI(10), RI(4)>>, <<RI(1), RI(0), RI(3), RI(8)>>,
   <<RI(0), RI(0), RI(10), RI(12)>>}

\* the fractions tried for each of the eight corner shifts
QuadFractions == {RI(0), Half}

Quads == [1..8 -> QuadFractions]

UnitImgSizes == {0, 3, 8, 25}

UnitChampions == {<<4, 4>>, <<16, 2>>, <<3, 9>>, <<100, 1>>, <<11, 11>>}

\* the (min_scale, max_scale) tried; on the canvases and fractions tried the
\* double-precision int(min(bw, bh) * scale) of line 197 is the exact one
ScaleRanges == {<<Rat(2, 25), Rat(1, 5)>>, <<Rat(3, 5), Rat(11, 5)>>}

\* the quads tried where the box goes on to the label: the canvas itself, a
\* keystone (top edge shortened) and a shear; their boxes keep denominators
\* that 32-bit sums can hold
SomeQuads ==
  {[n \in 1..8 |-> RI(0)],
   [n \in 1..8 |-> IF n \in {1, 3} THEN Half ELSE RI(0)],
   [n \in 1..8 |-> IF n \in {1, 5} THEN Half ELSE RI(0)]}

\* the values of randint(0, hi) tried: both ends
Picks(hi) == {0, hi}

UnitImage(size) == [NoImg EXCEPT !.size = size]

-----------------------------------------------------------------------------
(* Direct calls of the functions, one per step *)

CallsIdle ==
  /\ args = NoArgs /\ minimaps = <<>> /\ champions = <<>>
  /\ pc = "calls" /\ i = 0 /\ tries = 0 /\ img = NoImg /\ bbox = NoBox
  /\ boxOf = 0
  /\ calls = 0 /\ images = <<>> /\ labels = {}
  /\ rng = 0 /\ entropy = 0 /\ run = 0 /\ log = <<>>

InitCalls == CallsIdle /\ call = NoCall /\ ret = <<>>

mainVars == <<args, minimaps, champions, pc, i, tries, img, bbox, boxOf,
              calls, images, labels, rng, entropy, run, log>>

CallSaveLabel ==
  /\ call = NoCall
  /\ \E x1 \in LabelCoords, y1 \in LabelCoords, x2 \in LabelCoords,
     y2 \in LabelCoords, size \in (-1)..MaxLabelSize :
    /\ call' = [fn |-> "save_yolo_label", a |-> <<<<x1, y1, x2, y2>>, size>>]
    /\ ret' = save_yolo_label(<<x1, y1, x2, y2>>, size, 0)
    /\ UNCHANGED mainVars

CallResize ==
  /\ call = NoCall
  /\ \E w \in 0..MaxSide, h \in 0..MaxSide, target_long \in 1..MaxTargetLong :
    /\ call' = [fn |-> "resize_keep_aspect", a |-> <<w, h, target_long>>]
    /\ ret' = resize_keep_aspect(w, h, target_long)
    /\ UNCHANGED mainVars

CallAugment ==
  /\ call = NoCall
  /\ \E size \in UnitCanvases, b \in UnitBoxes, ap \in BOOLEAN, am \in BOOLEAN,
     ag \in BOOLEAN, bright \in BOOLEAN, contrast \in BOOLEAN :
    \E quad \in IF ap THEN Quads ELSE {<<>>} :
      LET d == [quad |-> quad, bright |-> bright, contrast |-> contrast]
      IN  /\ call' = [fn |-> "augment_image", a |-> <<size, b, ap, am, ag, d>>]
          /\ ret' = augment_image(UnitImage(size), b, ap, am, ag, d)
          /\ UNCHANGED mainVars

CallGenerateOne ==
  /\ call = NoCall
  /\ \E minimap \in {<<10, 12>>}, champion \in UnitChampions,
     img_size \in UnitImgSizes, range \in ScaleRanges, us \in Fractions,
     ap \in BOOLEAN, am \in BOOLEAN, ag \in BOOLEAN,
     bright \in BOOLEAN, contrast \in BOOLEAN :
    LET canvas == CanvasSize(minimap, img_size)
        fsz    == FgSize(canvas, champion, Uniform(range[1], range[2], us))
    IN  \E x \in Picks(MaxOffset(canvas[1], fsz[1])),
           y \in Picks(MaxOffset(canvas[2], fsz[2])),
           quad \in IF ap THEN SomeQuads ELSE {<<>>} :
          LET d == [u_scale |-> us, x |-> x, y |-> y, quad |-> quad,
                    bright |-> bright, contrast |-> contrast]
          IN  /\ call' = [fn |-> "generate_one",
                          a  |-> <<minimap, champion, img_size, range,
                                   ap, am, ag, d>>]
              /\ ret' = generate_one(minimap, champion, img_size, range,
                                     ap, am, ag, d)
              /\ UNCHANGED mainVars

\* one specification per group of functions called directly
SpecLabel == InitCalls /\ [][CallSaveLabel]_vars

SpecPlace == InitCalls /\ [][CallResize \/ CallGenerateOne]_vars

SpecAugment == InitCalls /\ [][CallAugment]_vars

-----------------------------------------------------------------------------
(* main()                                                                  *)

MaxTries == 5

MinBoxSide == 2

BudgetSpentLate(t) == t > MaxTries + 1

\* line 265: the attempt budget is used up
BudgetSpent(t) == t > MaxTries

\* line 282: the box is wide and high enough
Validates(b) ==
  /\ RLess(RI(MinBoxSide), RSub(b[3], b[1]))
  /\ RLess(RI(MinBoxSide), RSub(b[4], b[2]))

\* f"{i:06d}": the decimal digits of i, zero-padded on the left to width 6
RECURSIVE DigitsOf(_)
DigitsOf(n) == IF n < 10 THEN <<n>> ELSE Append(DigitsOf(n \div 10), n % 10)

NameWidth == 6

RECURSIVE PadLeft(_, _)
PadLeft(ds, width) == IF Len(ds) >= width THEN ds ELSE PadLeft(<<0>> \o ds, width)

OutNameUnpadded(n) == DigitsOf(n)

OutName(n) == PadLeft(DigitsOf(n), NameWidth)

\* lines 267-271: the draws main makes before it calls generate_one
MainDraws ==
  <<"draw:bg", "draw:fg", "draw:moire_flag", "draw:glare_flag",
    "draw:perspective_flag">>

\* lines 272-280: the call of generate_one.  d holds the outcomes of the
\* draws; d.moire, d.glare and d.persp are the values of
\* random.random() < args.*_prob (lines 269-271)
Pass(a, bgs, fgs, d) ==
  generate_one(bgs[d.bg], fgs[d.fg], a.img_size, <<a.min_scale, a.max_scale>>,
               d.persp, d.moire, d.glare, d)

\* lines 249-259
CheckPools ==
  /\ pc = "start"
  /\ pc' = IF minimaps = <<>> \/ champions = <<>> THEN "exit" ELSE "for"
  /\ UNCHANGED <<args, minimaps, champions, i, tries, img, bbox, boxOf, calls,
                 images, labels>>

\* line 261, another index left: i is bound to it; line 262
ForNext ==
  /\ pc = "for"
  /\ i < args.count
  /\ i' = i + 1
  /\ tries' = 0
  /\ calls' = 0
  /\ pc' = "while"
  /\ UNCHANGED <<args, minimaps, champions, img, bbox, boxOf, images, labels>>

\* line 261, range exhausted; line 291
ForEnd ==
  /\ pc = "for"
  /\ i >= args.count
  /\ pc' = "done"
  /\ UNCHANGED <<args, minimaps, champions, i, tries, img, bbox, boxOf, calls,
                 images, labels>>

\* lines 264-266, budget used up: break
GiveUp ==
  /\ pc = "while"
  /\ BudgetSpent(tries + 1)
  /\ tries' = tries + 1
  /\ pc' = "save"
  /\ UNCHANGED <<args, minimaps, champions, i, img, bbox, boxOf, calls,
                 images, labels>>

AssignedKeepFirstBox(r) ==
  /\ img' = [r.img EXCEPT !.attempt = tries + 1, !.hist = MainDraws \o @]
  /\ bbox' = IF tries = 0 THEN r.bbox ELSE bbox
  /\ boxOf' = IF tries = 0 THEN 1 ELSE boxOf
  /\ pc' = IF Validates(r.bbox) THEN "save" ELSE "while"

\* lines 272-283: img, bbox = r; break if the box validates
Assigned(r) ==
  /\ img' = [r.img EXCEPT !.attempt = tries + 1, !.hist = MainDraws \o @]
  /\ bbox' = r.bbox
  /\ boxOf' = tries + 1
  /\ pc' = IF Validates(r.bbox) THEN "save" ELSE "while"

\* lines 264-283, budget left: draw, generate, validate
AttemptWith(d) ==
  /\ pc = "while"
  /\ ~BudgetSpent(tries + 1)
  /\ Assigned(Pass(args, minimaps, champions, d))
  /\ tries' = tries + 1
  /\ calls' = calls + 1
  /\ UNCHANGED <<args, minimaps, champions, i, images, labels>>

\* lines 285-289
Persist ==
  /\ pc = "save"
  /\ LET out_name == OutName(i)
         label    == save_yolo_label(bbox, args.img_size, 0)
     IN  /\ images' = Append(images, [name |-> out_name, attempt |-> img.attempt])
         /\ labels' = IF label.status = "written"
                        THEN labels \cup {out_name} ELSE labels
         /\ pc' = IF label.status = "raised" THEN "exit" ELSE "for"
  /\ UNCHANGED <<args, minimaps, champions, i, tries, img, bbox, boxOf, calls>>

-----------------------------------------------------------------------------
(* Runs of main() under every outcome of the draws *)

MaxCount == 2

Square == <<4, 4>>

\* resized to 8 x 1: never passes the validation of line 282
Thin == <<16, 2>>

Minimap == <<10, 12>>

ImgSizes == {0, 1, 3, 10}

NoProb == <<RI(0), RI(0), RI(0)>>

\* the command lines tried: img_size, the two pools, and moire_prob,
\* glare_prob, perspective_prob
Scenarios ==
  {[img_size |-> size, minimaps |-> <<Minimap>>,
    champions |-> <<fg>>, probs |-> NoProb] :
      size \in ImgSizes, fg \in {Square, Thin}}
  \cup
  {[img_size |-> 10, minimaps |-> <<Minimap>>,
    champions |-> <<Square, Thin>>, probs |-> NoProb],
   [img_size |-> 10, minimaps |-> <<Minimap>>, champions |-> <<Square>>,
    probs |-> <<Half, Half, RI(0)>>],
   [img_size |-> 10, minimaps |-> <<Minimap>>, champions |-> <<Square>>,
    probs |-> <<RI(1), RI(1), Half>>],
   [img_size |-> 10, minimaps |-> <<>>, champions |-> <<Square>>,
    probs |-> NoProb],
   [img_size |-> 10, minimaps |-> <<Minimap>>, champions |-> <<>>,
    probs |-> NoProb]}

ArgsOf(sc, count, seed) ==
  [img_size |-> sc.img_size, count |-> count, seed |-> seed,
   min_scale |-> Rat(2, 25), max_scale |-> Rat(1, 5),
   moire_prob |-> sc.probs[1], glare_prob |-> sc.probs[2],
   perspective_prob |-> sc.probs[3]]

Init ==
  /\ \E sc \in Scenarios, count \in 0..MaxCount :
       /\ args = ArgsOf(sc, count, 0)
       /\ minimaps = sc.minimaps
       /\ champions = sc.champions
  /\ pc = "start" /\ i = 0 /\ tries = 0 /\ img = NoImg /\ bbox = NoBox
  /\ boxOf = 0 /\ calls = 0 /\ images = <<>> /\ labels = {}
  /\ rng = 0 /\ entropy = 0 /\ run = 0 /\ log = <<>>
  /\ call = NoCall /\ ret = <<>>

otherVars == <<rng, entropy, run, log, call, ret>>

\* what random.random() < p can be on the grid of fractions
FlagOutcomes(p) == {Below(u, p) : u \in Fractions}

Attempt ==
  \E bg \in 1..Len(minimaps), fg \in 1..Len(champions),
     moire \in FlagOutcomes(args.moire_prob),
     glare \in FlagOutcomes(args.glare_prob),
     persp \in FlagOutcomes(args.perspective_prob),
     us \in Fractions, bright \in FlagOutcomes(Half),
     contrast \in FlagOutcomes(Half) :
    LET canvas == CanvasSize(minimaps[bg], args.img_size)
        fsz    == FgSize(canvas, champions[fg],
                         Uniform(args.min_scale, args.max_scale, us))
    IN  \E x \in Picks(MaxOffset(canvas[1], fsz[1])),
           y \in Picks(MaxOffset(canvas[2], fsz[2])),
           quad \in IF persp THEN SomeQuads ELSE {<<>>} :
          /\ AttemptWith([bg |-> bg, fg |-> fg, moire |-> moire,
                          glare |-> glare, persp |-> persp, u_scale |-> us,
                          x |-> x, y |-> y, quad |-> quad, bright |-> bright,
                          contrast |-> contrast])
          /\ UNCHANGED otherVars

Next ==
  \/ CheckPools /\ UNCHANGED otherVars
  \/ ForNext /\ UNCHANGED otherVars
  \/ ForEnd /\ UNCHANGED otherVars
  \/ GiveUp /\ UNCHANGED otherVars
  \/ Attempt
  \/ Persist /\ UNCHANGED otherVars

Spec == Init /\ [][Next]_vars

-----------------------------------------------------------------------------
(* Runs of main() with a seeded random source.  The generator is a stand-in *)
(* for the Mersenne Twister: a full-period linear congruential generator    *)
(* over RngMod states; random() is the new state over RngMod.               *)

RngMod == 16

MaxEntropy == 1

RngMul == 5

RngInc == 3

Step(s) == (RngMul * s + RngInc) % RngMod

\* the state after k draws
RECURSIVE Word(_, _)
Word(s, k) == IF k = 0 THEN s ELSE Word(Step(s), k - 1)

\* the k-th random() from state s
U(s, k) == Rat(Word(s, k), RngMod)

\* random._randbelow(n), as int(random() * n)
RandBelow(u, n) == Trunc(RMul(u, RI(n)))

\* line 246: random.seed(args.seed) fixes the state whatever the process
\* would otherwise have started from
SeedStateUnseeded(seed, ent) == ent % RngMod

SeedState(seed, ent) == seed % RngMod

\* how many draws lines 153-173 make after the first k, by stage
AfterQuad(k, persp) == IF persp THEN k + 8 ELSE k

AfterMoire(k, moire) == IF moire THEN k + 3 ELSE k

AfterGlare(k, glare) == IF glare THEN k + 4 ELSE k

\* the position of the brightness flag's draw
BrightAt(a, s) ==
  AfterGlare(AfterMoire(AfterQuad(8, Below(U(s, 5), a.perspective_prob)),
                        Below(U(s, 3), a.moire_prob)),
             Below(U(s, 4), a.glare_prob)) + 1

\* the position of the contrast flag's draw
ContrastAt(a, s) ==
  BrightAt(a, s) + (IF Below(U(s, BrightAt(a, s)), Half) THEN 2 ELSE 1)

\* draws made by one pass
Consumed(a, s) ==
  ContrastAt(a, s) + (IF Below(U(s, ContrastAt(a, s)), Half) THEN 1 ELSE 0)

\* the outcomes of one pass's draws, in the order the code makes them:
\* lines 267-271, then 196, 203, 204, then augment_image's
SeededDraws(a, bgs, fgs, s) ==
  [bg       |-> 1 + RandBelow(U(s, 1), Len(bgs)),
   fg       |-> 1 + RandBelow(U(s, 2), Len(fgs)),
   moire    |-> Below(U(s, 3), a.moire_prob),
   glare    |-> Below(U(s, 4), a.glare_prob),
   persp    |-> Below(U(s, 5), a.perspective_prob),
   u_scale  |-> U(s, 6),
   x        |-> RandBelow(U(s, 7),
                  1 + MaxOffset(
                        CanvasSize(bgs[1 + RandBelow(U(s, 1), Len(bgs))],
                                   a.img_size)[1],
                        FgSize(CanvasSize(bgs[1 + RandBelow(U(s, 1), Len(bgs))],
                                          a.img_size),
                               fgs[1 + RandBelow(U(s, 2), Len(fgs))],
                               Uniform(a.min_scale, a.max_scale, U(s, 6)))[1])),
   y        |-> RandBelow(U(s, 8),
                  1 + MaxOffset(
                        CanvasSize(bgs[1 + RandBelow(U(s, 1), Len(bgs))],
                                   a.img_size)[2],
                        FgSize(CanvasSize(bgs[1 + RandBelow(U(s, 1), Len(bgs))],
                                          a.img_size),
                               fgs[1 + RandBelow(U(s, 2), Len(fgs))],
                               Uniform(a.min_scale, a.max_scale, U(s, 6)))[2])),
   quad     |-> [n \in 1..8 |-> U(s, 8 + n)],
   bright   |-> Below(U(s, BrightAt(a, s)), Half),
   contrast |-> Below(U(s, ContrastAt(a, s)), Half)]

\* what a sample's files and the run's bookkeeping show of it
Output ==
  [run |-> run, i |-> i, attempts |-> calls, scale |-> img.scale,
   at |-> img.at, fsize |-> img.fsize, box |-> bbox, hist |-> img.hist,
   line |-> save_yolo_label(bbox, args.img_size, 0).line, rng |-> rng]

SeededScenarios ==
  {[img_size |-> size, minimaps |-> <<Minimap>>, champions |-> <<fg>>,
    probs |-> NoProb] : size \in ImgSizes, fg \in {Square, Thin}}

InitSeeded ==
  /\ \E sc \in SeededScenarios, count \in 0..MaxCount, seed \in 0..(RngMod - 1) :
       /\ args = ArgsOf(sc, count, seed)
       /\ minimaps = sc.minimaps
       /\ champions = sc.champions
  /\ entropy \in 0..MaxEntropy
  /\ pc = "seed" /\ i = 0 /\ tries = 0 /\ img = NoImg /\ bbox = NoBox
  /\ boxOf = 0 /\ calls = 0 /\ images = <<>> /\ labels = {}
  /\ rng = 0 /\ run = 1 /\ log = <<>>
  /\ call = NoCall /\ ret = <<>>

runVars == <<args, minimaps, champions, i, tries, img, bbox, boxOf, calls,
             images, labels>>

\* lines 246-247
SeedRun ==
  /\ pc = "seed"
  /\ rng' = SeedState(args.seed, entropy)
  /\ pc' = "start"
  /\ UNCHANGED <<runVars, entropy, run, log, call, ret>>

AttemptSeeded ==
  /\ AttemptWith(SeededDraws(args, minimaps, champions, rng))
  /\ rng' = Word(rng, Consumed(args, rng))
  /\ UNCHANGED <<entropy, run, log, call, ret>>

PersistLogged ==
  /\ Persist
  /\ log' = Append(log, Output)
  /\ UNCHANGED <<rng, entropy, run, call, ret>>

\* the program is started again with the same command line, on a fresh
\* output directory; the process starts from whatever entropy it finds
Rerun ==
  /\ pc = "done"
  /\ run = 1
  /\ run' = 2
  /\ entropy' \in 0..MaxEntropy
  /\ pc' = "seed"
  /\ i' = 0 /\ tries' = 0 /\ img' = NoImg /\ bbox' = NoBox /\ boxOf' = 0
  /\ calls' = 0 /\ images' = <<>> /\ labels' = {} /\ rng' = 0
  /\ UNCHANGED <<args, minimaps, champions, log, call, ret>>

seededRest == <<rng, entropy, run, log, call, ret>>

NextSeeded ==
  \/ SeedRun
  \/ CheckPools /\ UNCHANGED seededRest
  \/ ForNext /\ UNCHANGED seededRest
  \/ ForEnd /\ UNCHANGED seededRest
  \/ GiveUp /\ UNCHANGED seededRest
  \/ AttemptSeeded
  \/ PersistLogged
  \/ Rerun

SpecSeeded == InitSeeded /\ [][NextSeeded]_vars

-----------------------------------------------------------------------------
(* The properties of the specification.  They clamp, name and size with    *)
(* definitions of their own, not with those of the program above.          *)

\* how often e occurs in seq, and where it occurs first (0: nowhere)
Count(seq, e) == Cardinality({n \in DOMAIN seq : seq[n] = e})

First(seq, e) ==
  IF \E n \in DOMAIN seq : seq[n] = e
    THEN CHOOSE n \in DOMAIN seq :
           seq[n] = e /\ \A m \in 1..(n - 1) : seq[m] # e
    ELSE 0

REq(a, b) == ~RLess(a, b) /\ ~RLess(b, a)

\* a coordinate brought into [0, S]
Clamped(v, S) ==
  IF RLess(v, RI(0)) THEN RI(0) ELSE IF RLess(RI(S), v) THEN RI(S) ELSE v

ClampedWidth(b, S) == RSub(Clamped(b[3], S), Clamped(b[1], S))

ClampedHeight(b, S) == RSub(Clamped(b[4], S), Clamped(b[2], S))

\* the Label Encoder produces a label for box b on a canvas of size S
EncoderAccepts(b, S) ==
  /\ S > 0
  /\ RLess(RI(0), ClampedWidth(b, S))
  /\ RLess(RI(0), ClampedHeight(b, S))

\* the identity n as six decimal digits
SixDigits(n) == [k \in 1..6 |-> (n \div (10 ^ (6 - k))) % 10]

-----------------------------------------------------------------------------
\* C1: for every sample index and every outcome of the draws, generate_one
\* is called at least once and at most 5 times before the sample is
\* persisted; a 6th generation never happens, also when the foreground is as
\* large as the canvas or larger.
C1_AtMostFiveAttempts ==
  /\ calls <= 5
  /\ pc = "save" => calls >= 1
  /\ \A n \in DOMAIN images : images[n].attempt \in 1..5

\* the fifth attempt of a foreground wider than the canvas has been made and
\* the sample goes on to be persisted
C1_FifthAttemptReached ==
  /\ pc = "save"
  /\ calls = 5
  /\ img.fsize[1] >= img.size[1]

-----------------------------------------------------------------------------
\* C2: an attempt ends the retry loop by validation (before the budget of 5
\* is exhausted) only if its box, clamped to [0, canvasSize], is more than
\* 2 px wide and more than 2 px high; so a sample accepted by validation has
\* a box that the Label Encoder does not reject.
C2_ValidatedBoxIsUsable ==
  (pc = "save" /\ tries <= 5) =>
    /\ RLess(RI(2), ClampedWidth(bbox, args.img_size))
    /\ RLess(RI(2), ClampedHeight(bbox, args.img_size))
    /\ EncoderAccepts(bbox, args.img_size)

-----------------------------------------------------------------------------
\* C3: save_yolo_label clamps each coordinate to [0, S]; when the clamped box
\* has x2 <= x1 or y2 <= y1 nothing is written and nothing is divided, also
\* for S <= 0; otherwise one line is written with the class id,
\* cx = (x1+x2)/(2S), cy = (y1+y2)/(2S), w = (x2-x1)/S, h = (y2-y1)/S of the
\* clamped box to six decimals, so 0 < w <= 1, 0 < h <= 1, cx - w/2 >= 0,
\* cx + w/2 <= 1 (same for y), and the box (0,0,S,S) gives 0.5 0.5 1 1.
C3_LabelOfClampedBox ==
  call.fn = "save_yolo_label" =>
    LET b  == call.a[1]
        S  == call.a[2]
        sx == RAdd(Clamped(b[1], S), Clamped(b[3], S))
        sy == RAdd(Clamped(b[2], S), Clamped(b[4], S))
        cx == RDiv(sx, RI(2 * S))
        cy == RDiv(sy, RI(2 * S))
        w  == RDiv(ClampedWidth(b, S), RI(S))
        h  == RDiv(ClampedHeight(b, S), RI(S))
    IN  /\ ret.status # "raised"
        /\ S <= 0 => ret.status = "none"
        /\ (ret.status = "written") <=> EncoderAccepts(b, S)
        /\ ret.status = "written" =>
             /\ ret.line = <<0, Fmt6(cx), Fmt6(cy), Fmt6(w), Fmt6(h)>>
             /\ REq(ret.exact[1], cx) /\ REq(ret.exact[2], cy)
             /\ REq(ret.exact[3], w) /\ REq(ret.exact[4], h)
             /\ RLess(RI(0), w) /\ RLeq(w, RI(1))
             /\ RLess(RI(0), h) /\ RLeq(h, RI(1))
             /\ RLeq(RI(0), RSub(cx, RMul(w, Half)))
             /\ RLeq(RAdd(cx, RMul(w, Half)), RI(1))
             /\ RLeq(RI(0), RSub(cy, RMul(h, Half)))
             /\ RLeq(RAdd(cy, RMul(h, Half)), RI(1))
        /\ (S > 0 /\ b = <<RI(0), RI(0), RI(S), RI(S)>>) =>
             ret.line = <<0, 500000, 500000, 1000000, 1000000>>

\* a label was written for a box that starts left of the canvas and ends
\* right of it
C3_ClampedLabelWritten ==
  /\ call.fn = "save_yolo_label"
  /\ ret.status = "written"
  /\ RLess(call.a[1][1], RI(0))
  /\ RLess(RI(call.a[2]), call.a[1][3])

-----------------------------------------------------------------------------
\* C4: the images written are at every point the identities 1..k, six digits
\* zero-padded, in increasing order and each once; a failed or retried
\* attempt neither consumes nor skips an identity; after a run with
\* non-empty pools k = count.
C4_IdentitiesArePrefix ==
  /\ \A n \in DOMAIN images : images[n].name = SixDigits(n)
  /\ labels \subseteq {images[n].name : n \in DOMAIN images}
  /\ pc \in {"while", "save"} => Len(images) = i - 1
  /\ pc = "for" => Len(images) = i
  /\ pc = "done" => Len(images) = args.count

\* a run of two samples is over and the first sample took retries
C4_TwoSamplesAfterRetries ==
  /\ pc = "done"
  /\ Len(images) = 2
  /\ images[1].attempt > 1

-----------------------------------------------------------------------------
\* C5: when all 5 attempts of an index fail validation, an image is still
\* persisted for it; the image persisted and the box given to the Label
\* Encoder are both those of the 5th attempt; the batch is not aborted and
\* goes on; the label of the index is written exactly when the Label Encoder
\* accepts that box.
C5_ExhaustionPersistsFifthAttempt ==
  tries > 5 =>
    /\ calls = 5 /\ img.attempt = 5 /\ boxOf = 5
    /\ pc \in {"save", "for", "done"}
    /\ pc # "save" =>
         LET last == images[Len(images)]
         IN  /\ Len(images) = i
             /\ last.name = SixDigits(i)
             /\ last.attempt = 5
             /\ (last.name \in labels) <=> EncoderAccepts(bbox, args.img_size)

\* the first of two samples was persisted with its label after 5 failed
\* attempts and the loop is about to take the next index
C5_ExhaustedSamplePersisted ==
  /\ tries > 5
  /\ pc = "for"
  /\ i = 1
  /\ args.count = 2
  /\ SixDigits(1) \in labels

-----------------------------------------------------------------------------
\* C6: in generate_one the offset (x, y) is drawn from
\* [0, canvasW - fgW] x [0, canvasH - fgH], so the placement box lies inside
\* the canvas; when the resized foreground is as large as the canvas along
\* an axis the offset on that axis is always 0.
C6_OffsetInPlacementRange ==
  call.fn = "generate_one" =>
    LET size == ret.img.size
        f    == ret.img.fsize
        at   == ret.img.at
    IN  /\ 0 <= at[1] /\ at[1] <= size[1] - f[1]
        /\ 0 <= at[2] /\ at[2] <= size[2] - f[2]
        /\ f[1] >= size[1] => at[1] = 0
        /\ f[2] >= size[2] => at[2] = 0

-----------------------------------------------------------------------------
Gates ==
  {"draw:perspective_flag", "draw:moire_flag", "draw:glare_flag",
   "draw:brightness_flag", "draw:contrast_flag"}

Stages == <<"perspective", "moire", "glare", "brightness", "contrast">>

\* the stages that ran did so once and in the order of Stages
StagesInOrder(hist) ==
  /\ \A n \in 1..5 : Count(hist, Stages[n]) <= 1
  /\ \A m, n \in 1..5 :
       (m < n /\ Count(hist, Stages[m]) = 1 /\ Count(hist, Stages[n]) = 1)
         => First(hist, Stages[m]) < First(hist, Stages[n])

\* the image in hand is the one of the latest attempt, made of draws of its
\* own: each asset choice and each gate was drawn once for it
DrawnAfresh ==
  /\ calls > 0 => img.attempt = calls
  /\ \A e \in Gates \cup {"draw:bg", "draw:fg"} : Count(img.hist, e) = 1

\* C7, as the specification has it: every stage (perspective, interference,
\* glare, brightness, contrast) is gated by a boolean drawn once per attempt
\* before the pipeline runs; the draws are made afresh on every attempt; the
\* stages run in the order perspective, interference, glare, brightness,
\* contrast.
C7_AllGatesBeforePipeline ==
  img.attempt > 0 =>
    /\ DrawnAfresh
    /\ \A g \in Gates :
         First(img.hist, g) < First(img.hist, "augment")
    /\ StagesInOrder(img.hist)

\* C7, as the code has it: the gates of perspective, interference and glare
\* are drawn once per attempt before the pipeline runs; the gates of
\* brightness and contrast are drawn once per attempt inside the pipeline,
\* the brightness gate after the glare stage and the contrast gate after the
\* brightness stage; the draws are made afresh on every attempt; the stages
\* run in the order perspective, interference, glare, brightness, contrast.
C7_ThreeGatesBeforePipeline ==
  img.attempt > 0 =>
    LET at(e) == First(img.hist, e)
        ran(e) == Count(img.hist, e) = 1
    IN  /\ DrawnAfresh
        /\ \A g \in {"draw:perspective_flag", "draw:moire_flag",
                     "draw:glare_flag"} : at(g) < at("augment")
        /\ at("augment") < at("draw:brightness_flag")
        /\ at("draw:brightness_flag") < at("draw:contrast_flag")
        /\ \A st \in {"perspective", "moire", "glare"} :
             ran(st) => /\ at("augment") < at(st)
                        /\ at(st) < at("draw:brightness_flag")
        /\ ran("brightness") =>
             /\ at("draw:brightness_flag") < at("brightness")
             /\ at("brightness") < at("draw:contrast_flag")
        /\ ran("contrast") => at("draw:contrast_flag") < at("contrast")
        /\ StagesInOrder(img.hist)

\* an attempt in which all five stages ran
C7_AllStagesRan ==
  /\ img.attempt > 0
  /\ \A n \in 1..5 : Count(img.hist, Stages[n]) = 1

-----------------------------------------------------------------------------
\* C8: two runs with the same seed, configuration and pools (one background,
\* one foreground, all augmentation probabilities 0) consume the random
\* source in the same order and give every index the same number of
\* attempts, the same scale, offset and box, and the same label line.
C8_SameSeedSameOutput ==
  \A m, n \in DOMAIN log :
    (log[m].run = 1 /\ log[n].run = 2 /\ log[m].i = log[n].i)
      => log[n] = [log[m] EXCEPT !.run = 2]

\* the second run has persisted its second sample, with a label and away
\* from the corner, and the first run had persisted one for that index
C8_BothRunsLogged ==
  \E m, n \in DOMAIN log :
    /\ log[m].run = 1 /\ log[n].run = 2
    /\ log[m].i = 2 /\ log[n].i = 2
    /\ log[n].line # <<>>
    /\ log[n].at # <<0, 0>>

-----------------------------------------------------------------------------
LongSide(size) == IF size[1] >= size[2] THEN size[1] ELSE size[2]

ShortSide(size) == IF size[1] >= size[2] THEN size[2] ELSE size[1]

\* the short side in proportion to the new long side, floored
Proportional(size, long) == (ShortSide(size) * long) \div LongSide(size)

AtLeastOne(n) == IF n < 1 THEN 1 ELSE n

\* scale x min(canvasW, canvasH), truncated
ScaledCanvas(image) ==
  LET m == IF image.size[1] <= image.size[2] THEN image.size[1]
                                             ELSE image.size[2]
      p == RMul(RI(m), image.scale)
  IN  p[1] \div p[2]

\* C9, as the specification has it: for every scale of the range and every
\* canvas the foreground is resized so that its longer side is
\* scale x min(canvasW, canvasH) truncated and its shorter side the
\* proportional value floored and raised to at least 1 px, so the longer
\* side is never more than maxScale x min(canvasW, canvasH).
C9_LongSideIsScaledCanvas ==
  call.fn = "generate_one" =>
    LET f    == ret.img.fsize
        m    == IF ret.img.size[1] <= ret.img.size[2] THEN ret.img.size[1]
                                                      ELSE ret.img.size[2]
    IN  /\ LongSide(f) = ScaledCanvas(ret.img)
        /\ ShortSide(f) = AtLeastOne(Proportional(call.a[2], LongSide(f)))
        /\ RLeq(RI(LongSide(f)), RMul(RI(m), call.a[4][2]))

\* C9, as the code has it: the longer side is scale x min(canvasW, canvasH)
\* truncated but never less than 8 px, so it is at most the larger of 8 and
\* maxScale x min(canvasW, canvasH); the shorter side is the proportional
\* value floored, or one less where that value is a whole number that the
\* double-precision division and product fall short of, and at least 1 px.
\* resize_keep_aspect itself gives every non-empty image exactly the target
\* as its longer side and leaves an empty image as it is.
C9_LongSideAtLeastEight ==
  /\ call.fn = "generate_one" =>
       LET f    == ret.img.fsize
           m    == IF ret.img.size[1] <= ret.img.size[2]
                     THEN ret.img.size[1] ELSE ret.img.size[2]
           t    == ScaledCanvas(ret.img)
           prop == Proportional(call.a[2], LongSide(f))
       IN  /\ RLeq(call.a[4][1], ret.img.scale)
           /\ RLeq(ret.img.scale, call.a[4][2])
           /\ LongSide(f) = IF t < 8 THEN 8 ELSE t
           /\ ShortSide(f) \in {AtLeastOne(prop), AtLeastOne(prop - 1)}
           /\ (ShortSide(call.a[2]) * LongSide(f)) % LongSide(call.a[2]) # 0
                => ShortSide(f) = AtLeastOne(prop)
           /\ \/ LongSide(f) = 8
              \/ RLeq(RI(LongSide(f)), RMul(RI(m), call.a[4][2]))
  /\ call.fn = "resize_keep_aspect" =>
       LET size == <<call.a[1], call.a[2]>>
           t    == call.a[3]
       IN  IF size[1] = 0 \/ size[2] = 0
             THEN ret = size
             ELSE /\ LongSide(ret) = t
                  /\ IF size[1] >= size[2] THEN ret[1] = t ELSE ret[2] = t
                  /\ ShortSide(ret) \in {AtLeastOne(Proportional(size, t)),
                                         AtLeastOne(Proportional(size, t) - 1)}
                  /\ (ShortSide(size) * t) % LongSide(size) # 0
                       => ShortSide(ret) = AtLeastOne(Proportional(size, t))

\* a square foreground of 11 x 11 was resized for a scale of 3/5 of a
\* 25 x 25 canvas: 15 px long and, by the rounding, 14 px short
C9_SquareResizedUnevenly ==
  /\ call.fn = "generate_one"
  /\ call.a[2] = <<11, 11>>
  /\ ScaledCanvas(ret.img) = 15
  /\ ret.img.fsize = <<15, 14>>

-----------------------------------------------------------------------------
\* C10: with the perspective toggle false augment_image returns exactly the
\* box it was given, whatever the other stages do; with the toggle true the
\* box becomes the rectangle (min x, min y, max x, max y) of the four corners
\* mapped through the homography from the source quad to the destination
\* quad, so x1 <= x2, y1 <= y2 and the box contains the four mapped corners.
C10_OnlyPerspectiveMovesBox ==
  call.fn = "augment_image" =>
    LET size == call.a[1]
        b    == call.a[2]
        out  == ret.bbox
        q    == QuadFor(size[1], size[2], call.a[6].quad)
        pts  == apply_homography(Corners(b), solve_homography(q.src, q.dst))
    IN  IF ~call.a[3]
          THEN out = b
          ELSE /\ RLeq(out[1], out[3]) /\ RLeq(out[2], out[4])
               /\ \A n \in 1..4 :
                    /\ RLeq(out[1], pts[n][1]) /\ RLeq(pts[n][1], out[3])
                    /\ RLeq(out[2], pts[n][2]) /\ RLeq(pts[n][2], out[4])
               /\ \A k \in 1..4 :
                    \E n \in 1..4 : REq(out[k], pts[n][2 - (k % 2)])
               /\ b = <<RI(0), RI(0), RI(size[1]), RI(size[2])>> =>
                    \A n \in 1..4 : /\ REq(pts[n][1], q.dst[n][1])
                                    /\ REq(pts[n][2], q.dst[n][2])

\* the perspective stage ran together with the interference and glare
\* stages and moved the box
C10_BoxWarped ==
  /\ call.fn = "augment_image"
  /\ call.a[3] /\ call.a[4] /\ call.a[5]
  /\ ret.bbox # call.a[2]

====
